---- MODULE Spec2Model ----
(***************************************************************************)
(* Record manager (src/record_mgr.c): a table file of fixed-size pages,    *)
(* a page directory kept in memory and flushed to a directory page, a      *)
(* slot directory at the start of every data page, and a scan cursor.      *)
(*                                                                         *)
(* A page is an array of PAGE_SIZE cells; every sizeof is counted in       *)
(* cells (an int is one cell, a SlotDirectoryEntry two, a                  *)
(* PageDirectoryEntry four).  The storage manager is an array of blocks,   *)
(* zero where never written (the length of the file is not tracked, so     *)
(* appendEmptyBlock changes nothing the model reads).  The buffer pool     *)
(* keeps frames by block number, answers a pin from the frame when it has  *)
(* one, writes a dirty frame back when it evicts it or shuts down, and     *)
(* may evict any unpinned frame between two calls.                         *)
(***************************************************************************)
EXTENDS Integers, Sequences, FiniteSets, TLC

\* ---------------------------------------------------------------- sizes
PAGE_SIZE == 12
SizeofInt == 1
SizeofSlotDirectoryEntry == 2
SizeofPageDirectoryEntry == 4
DELETED_RECORD_MARKER == 253
INVALID_PAGE_NUM == -1
INVALID_SLOT_NUM == -1

\* ---------------------------------------------------------------- bounds
MaxIns == 3
MaxDel == 2
MaxUpd == 1
MaxOpen == 1
MaxSlot == 2
GrowIns == 6
GrowDel == 1
ReuseIns == 4
MaxClose == 3
MaxFault == 1
MaxCalls == 16
MaxStr == 3
MaxAttr == 3

\* No call names a block beyond this one while the bounds above hold.
MaxBlock == 2 * GrowIns + 2

\* Record sizes of the schemas a table is created with (computeRecordSize).
RecordSizes == {1, 4}

\* Values a read outside the page frame can yield.
WildCells == {0, DELETED_RECORD_MARKER}

Cells == 0 .. (PAGE_SIZE - 1)
Blocks == 0 .. MaxBlock
ZeroPage == [i \in Cells |-> 0]

\* The records a caller inserts or updates with: its k-th record carries k
\* in its first cell, so that no two records written have equal bytes.
InputRecords(rs, k) == { [i \in 1 .. rs |-> IF i = 1 THEN k ELSE 0] }

maxEntriesPerPage == (PAGE_SIZE - 2 * SizeofInt) \div SizeofPageDirectoryEntry

RID(p, s) == [page |-> p, slot |-> s]
NoRID == RID(INVALID_PAGE_NUM, INVALID_SLOT_NUM)

VARIABLES
    isOpen,        \* the table handle holds management data
    recordSize,    \* computeRecordSize(schema), fixed by createTable
    numPages,      \* mgmtData->numPages
    numPageDP,     \* mgmtData->numPageDP
    pageDirectory, \* mgmtData->pageDirectory, entry i at index i + 1
    disk,          \* the page file: block -> page
    pool,          \* the buffer pool: cached block -> [data, dirty]
    wild,          \* some access fell outside a page frame or an array
    scan,          \* the scan handle
    live,          \* RIDs assigned by an insert and not deleted since
    dead,          \* RIDs of inserted records deleted and not assigned again since
    nIns,          \* successful insertRecord calls
    nDel,          \* successful deleteRecord calls
    nUpd,          \* successful updateRecord calls
    nOpen,         \* openTable calls after the first
    rel,           \* what rel->schema and rel->managementData point to
    reused,        \* released resources a call has read or released again
    aborted,       \* the process ended in a call on released memory
    schema,        \* the schema: per attribute its dataType and typeLength
    recordData,    \* record->data of the caller's record
    lastSet,       \* the last setAttr that returned RC_OK: attrNum and value
    nFault,        \* record operations that returned the status of a failed call
    catalog        \* the schema given to createTable, its status, block 0 of the
                   \* file, and the schema openTable read back

vars == << isOpen, recordSize, numPages, numPageDP, pageDirectory, disk, pool,
           wild, scan, live, dead, nIns, nDel, nUpd, nOpen, rel, reused,
           aborted, schema, recordData, lastSet, nFault, catalog >>

\* ------------------------------------------------- table and storage state
\* The state the record operations read and write, as one value.
\* log holds the calls the operation in progress has made to the buffer
\* pool, the storage manager and the allocator, and its writes into page
\* frames; failAt is the number of the call that returns a failure, 0 for
\* none; rc is RC_OK until a call has failed, then the status it returned.
Tbl ==
    [ numPages |-> numPages, numPageDP |-> numPageDP,
      pageDirectory |-> pageDirectory, disk |-> disk, pool |-> pool,
      wild |-> wild, log |-> << >>, failAt |-> 0, rc |-> "RC_OK" ]

NumDataPages(T) == T.numPages - T.numPageDP + 1

\* A cell of a page; w stands for what a read outside the frame yields.
Cell(page, c, w) == IF c \in Cells THEN page[c] ELSE w

\* A memcpy that lands one cell past its destination.
WriteCellsOneLate(page, off, data) ==
    [c \in Cells |->
        IF c >= off + 1 /\ c < off + 1 + Len(data) THEN data[c - off] ELSE page[c]]

\* memcpy(page + off, data, Len(data)); cells outside the frame are not the page's.
WriteCells(page, off, data) ==
    [c \in Cells |->
        IF c >= off /\ c < off + Len(data) THEN data[c - off + 1] ELSE page[c]]

\* memcpy(out, page + off, rs)
ReadCells(page, off, rs, w) == [i \in 1 .. rs |-> Cell(page, off + i - 1, w)]

OutOfFrame(off, n) == off < 0 \/ off + n > PAGE_SIZE

\* (SlotDirectoryEntry *)(pageData + slot * sizeof(SlotDirectoryEntry))
SlotOffset(page, slot, w) == Cell(page, slot * SizeofSlotDirectoryEntry, w)
SlotIsFree(page, slot, w) == Cell(page, slot * SizeofSlotDirectoryEntry + 1, w) # 0

\* int >= size_t: the int is converted to unsigned, a negative one is huge.
GeUnsigned(a, b) == IF a < 0 THEN TRUE ELSE a >= b

\* ---------------------------------------------------------- collaborators
\* Each call to a collaborator is entered in the log; the failAt-th fails
\* and has no other effect.
Calls(T) == Cardinality({i \in 1 .. Len(T.log) : T.log[i].op # "store"})

Called(T, op, b) ==
    LET ok == Calls(T) + 1 # T.failAt
    IN  [T EXCEPT
           !.log = Append(@, [op |-> op, page |-> b, ok |-> ok]),
           !.rc = IF ok THEN @
                  ELSE IF op = "alloc" THEN "RC_MEMORY_ALLOCATION_FAIL"
                  ELSE "RC_ERROR"]

\* A call has failed; the status it handed back.
Failed(T) == T.rc # "RC_OK"
Status(T) == T.rc

\* The caller does not look at the status of the call just made.
Ignored(T, rc) == [T EXCEPT !.rc = rc]

\* A store into the frame of block b (through the pinned page's data pointer).
Wrote(T, b) == [T EXCEPT !.log = Append(@, [op |-> "store", page |-> b, ok |-> TRUE])]

\* malloc, calloc, realloc
alloc(T) == Called(T, "alloc", -1)

pinPage(T, b) ==
    LET C == Called(T, "pinPage", b)
    IN  IF Failed(C) \/ b \in DOMAIN T.pool THEN C
        ELSE [C EXCEPT !.pool =
                [x \in DOMAIN T.pool \cup {b} |->
                    IF x = b THEN [data |-> T.disk[b], dirty |-> FALSE]
                    ELSE T.pool[x]]]

markDirty(T, b) ==
    LET C == Called(T, "markDirty", b)
    IN  IF Failed(C) THEN C ELSE [C EXCEPT !.pool[b].dirty = TRUE]

unpinPage(T, b) == Called(T, "unpinPage", b)

writeBlock(T, b, page) ==
    LET C == Called(T, "writeBlock", b)
    IN  IF Failed(C) THEN C ELSE [C EXCEPT !.disk[b] = page]

appendEmptyBlock(T) == Called(T, "appendEmptyBlock", -1)

\* Every dirty frame is written back, every frame is dropped.
shutdownBufferPool(T) ==
    [T EXCEPT
        !.disk = [b \in Blocks |->
                    IF b \in DOMAIN T.pool /\ T.pool[b].dirty
                    THEN T.pool[b].data ELSE T.disk[b]],
        !.pool = << >>]

\* The pool makes room: one unpinned frame is written back if dirty and dropped.
evictFrame(T, b) ==
    [T EXCEPT
        !.disk[b] = IF T.pool[b].dirty THEN T.pool[b].data ELSE @,
        !.pool = [x \in DOMAIN T.pool \ {b} |-> T.pool[x]]]

\* evalExpr on a scan condition: NULL, "attribute 0 is greater than 1" or
\* "attribute 0 is smaller than 2".
Conditions == {"NULL", "attr0_gt_1", "attr0_lt_2"}
evalExpr(data, condition) ==
    \/ condition = "attr0_gt_1" /\ data[1] > 1
    \/ condition = "attr0_lt_2" /\ data[1] < 2

\* ------------------------------------------------------- page directory
initPageDirectoryEntry(pageId) ==
    [pageID |-> pageId, hasFreeSlot |-> TRUE, freeSpace |-> PAGE_SIZE,
     recordCount |-> 0]

\* The cells savePageDirectoryToDisk lays out: the two counters, then the entries.
DirectoryCell(T, c) ==
    IF c = 0 THEN T.numPages
    ELSE IF c = SizeofInt THEN T.numPageDP
    ELSE LET i == (c - 2 * SizeofInt) \div SizeofPageDirectoryEntry
             f == (c - 2 * SizeofInt) % SizeofPageDirectoryEntry
         IN  IF i >= NumDataPages(T) \/ i >= Len(T.pageDirectory) THEN 0
             ELSE LET e == T.pageDirectory[i + 1]
                  IN  CASE f = 0 -> e.pageID
                        [] f = 1 -> IF e.hasFreeSlot THEN 1 ELSE 0
                        [] f = 2 -> e.freeSpace
                        [] OTHER -> e.recordCount

DirectoryBlock(T) ==
    (T.numPages \div maxEntriesPerPage) * maxEntriesPerPage + T.numPageDP

savePageDirectoryToDisk(T) ==
    LET numEntries == NumDataPages(T)
        overflow == 2 * SizeofInt + numEntries * SizeofPageDirectoryEntry > PAGE_SIZE
        A == alloc(T)
    IN  IF Failed(A) THEN A
        ELSE writeBlock([A EXCEPT !.wild = @ \/ overflow], DirectoryBlock(T),
                        [c \in Cells |-> DirectoryCell(T, c)])

\* Pins block 1, copies it, unpins it, and parses the copy.
loadPageDirectoryFromDisk(T, w) ==
    LET directoryData == T.disk[1]
        np == directoryData[0]
        dp == directoryData[SizeofInt]
        numEntries == np - dp + 1
        at(i, f) == Cell(directoryData,
                         2 * SizeofInt + i * SizeofPageDirectoryEntry + f, w)
    IN  [T EXCEPT
            !.numPages = np,
            !.numPageDP = dp,
            !.pageDirectory =
                [k \in 1 .. numEntries |->
                    [pageID |-> at(k - 1, 0), hasFreeSlot |-> at(k - 1, 1) # 0,
                     freeSpace |-> at(k - 1, 2), recordCount |-> at(k - 1, 3)]],
            !.wild = @ \/ 2 * SizeofInt + numEntries * SizeofPageDirectoryEntry
                            > PAGE_SIZE]

findFreePageIndex(T) ==
    LET free == {i \in 0 .. NumDataPages(T) - 1 : T.pageDirectory[i + 1].hasFreeSlot}
    IN  IF free = {} THEN -1 ELSE CHOOSE i \in free : \A j \in free : i <= j

\* A slot search that returns the last free slot rather than the first.
locateLastFreeSlot(pageData, recordCount, w) ==
    LET free == {i \in 0 .. recordCount - 1 : SlotIsFree(pageData, i, w)}
    IN  IF free = {} THEN -1 ELSE CHOOSE i \in free : \A j \in free : i >= j

locateFreeSlot(pageData, recordCount, w) ==
    LET free == {i \in 0 .. recordCount - 1 : SlotIsFree(pageData, i, w)}
    IN  IF free = {} THEN -1 ELSE CHOOSE i \in free : \A j \in free : i <= j

\* A statistics update that also takes a record off recordCount when it
\* credits room.
updatePageStatisticsCounts(T, rs, pageIdx, spaceChange) ==
    IF pageIdx + 1 > Len(T.pageDirectory) THEN [T EXCEPT !.wild = TRUE]
    ELSE LET freeSpace == T.pageDirectory[pageIdx + 1].freeSpace + spaceChange
         IN  [T EXCEPT
                !.pageDirectory[pageIdx + 1].freeSpace = freeSpace,
                !.pageDirectory[pageIdx + 1].hasFreeSlot =
                    GeUnsigned(freeSpace, rs + SizeofSlotDirectoryEntry),
                !.pageDirectory[pageIdx + 1].recordCount =
                    IF spaceChange > 0 THEN @ - 1 ELSE @]

\* A statistics update that moves freeSpace and leaves hasFreeSlot as it was.
updatePageStatisticsKeepsFlag(T, rs, pageIdx, spaceChange) ==
    IF pageIdx + 1 > Len(T.pageDirectory) THEN [T EXCEPT !.wild = TRUE]
    ELSE [T EXCEPT
            !.pageDirectory[pageIdx + 1].freeSpace =
                T.pageDirectory[pageIdx + 1].freeSpace + spaceChange]

\* A statistics update whose hasFreeSlot demands room beyond one record and slot.
updatePageStatisticsStrict(T, rs, pageIdx, spaceChange) ==
    IF pageIdx + 1 > Len(T.pageDirectory) THEN [T EXCEPT !.wild = TRUE]
    ELSE LET freeSpace == T.pageDirectory[pageIdx + 1].freeSpace + spaceChange
         IN  [T EXCEPT
                !.pageDirectory[pageIdx + 1].freeSpace = freeSpace,
                !.pageDirectory[pageIdx + 1].hasFreeSlot =
                    GeUnsigned(freeSpace, rs + SizeofSlotDirectoryEntry + 1)]

updatePageStatistics(T, rs, pageIdx, spaceChange) ==
    IF pageIdx + 1 > Len(T.pageDirectory) THEN [T EXCEPT !.wild = TRUE]
    ELSE LET freeSpace == T.pageDirectory[pageIdx + 1].freeSpace + spaceChange
         IN  [T EXCEPT
                !.pageDirectory[pageIdx + 1].freeSpace = freeSpace,
                !.pageDirectory[pageIdx + 1].hasFreeSlot =
                    GeUnsigned(freeSpace, rs + SizeofSlotDirectoryEntry)]

getNumTuples(T) ==
    LET sum[n \in 0 .. Len(T.pageDirectory)] ==
            IF n = 0 THEN 0 ELSE sum[n - 1] + T.pageDirectory[n].recordCount
    IN  sum[NumDataPages(T)]

isValidRecordID(id, totalPages) ==
    id.page >= 0 /\ id.page < totalPages /\ id.slot >= 0

\* ------------------------------------------------------ record operations
\* Each returns [T: the state after the call, rc, id, data].
Result(T, rc, id, data) == [T |-> T, rc |-> rc, id |-> id, data |-> data]

\* A tail that flushes the directory while the page is still pinned.
saveThenUnpin(M, b) ==
    IF Failed(M) THEN Ignored(unpinPage(M, b), Status(M))
    ELSE unpinPage(savePageDirectoryToDisk(M), b)

\* The tail of insertRecord and deleteRecord: the page is marked dirty and
\* unpinned, then the directory is flushed.  A failed markDirty unpins and
\* returns; a failed unpinPage returns.
unpinThenSave(M, b) ==
    LET U == unpinPage(M, b)
    IN  IF Failed(M) THEN Ignored(U, Status(M))
        ELSE IF Failed(U) THEN U
        ELSE savePageDirectoryToDisk(U)

markUnpinSave(T, b) == unpinThenSave(markDirty(T, b), b)

\* The directory page insertRecord appends when the entries outgrow the
\* directory pages.
appendDirectoryPage(T) ==
    LET A == alloc([T EXCEPT !.numPages = @ + 1, !.numPageDP = @ + 1])
        B == appendEmptyBlock(A)
    IN  IF Failed(A) THEN A
        ELSE IF Failed(B) THEN B
        ELSE writeBlock(B, B.numPages, ZeroPage)

\* The data page insertRecord appends when no entry has hasFreeSlot.
appendDataPage(T) ==
    LET R == alloc([T EXCEPT !.numPages = @ + 1])
        A == alloc([R EXCEPT
                      !.pageDirectory =
                         Append(@, initPageDirectoryEntry(R.numPages - R.numPageDP))])
        B == appendEmptyBlock(A)
    IN  IF Failed(R) THEN R
        ELSE IF Failed(A) THEN A
        ELSE IF Failed(B) THEN B
        ELSE writeBlock(B, B.numPages, ZeroPage)

\* insertRecord from the pinned page on: the slot is chosen, the slot entry
\* and the record are stored, the entry's counters are brought up to date.
storeRecord(T3, pageIndex, pageToPin, rs, data, w) ==
    LET entry == T3.pageDirectory[pageIndex + 1]
        pageData == T3.pool[pageToPin].data
        free == locateFreeSlot(pageData, entry.recordCount, w)
        slotIndex == IF free = -1 THEN entry.recordCount ELSE free
        recordCount == IF free = -1 THEN entry.recordCount + 1 ELSE entry.recordCount
        recordOffset == PAGE_SIZE - recordCount * rs
        slotAt == slotIndex * SizeofSlotDirectoryEntry
        withSlot == WriteCells(pageData, slotAt, << recordOffset, 0 >>)
        withRecord == WriteCells(withSlot, recordOffset, data)
        T4 == Wrote([T3 EXCEPT
                       !.pool[pageToPin].data = withRecord,
                       !.pageDirectory[pageIndex + 1].recordCount = recordCount,
                       !.wild = @ \/ OutOfFrame(slotAt, SizeofSlotDirectoryEntry)
                                  \/ OutOfFrame(recordOffset, rs)], pageToPin)
        T6 == markUnpinSave(
                updatePageStatistics(T4, rs, pageIndex,
                                     0 - (rs + SizeofSlotDirectoryEntry)),
                pageToPin)
    IN  Result(T6, Status(T6), RID(entry.pageID, slotIndex), data)

\* insertRecord from the pin of the page of entry pageIndex on.
pinAndStore(T2, pageIndex, rs, data, w) ==
    LET pageToPin == T2.pageDirectory[pageIndex + 1].pageID + T2.numPageDP + 1
        T3 == pinPage(T2, pageToPin)
    IN  IF Failed(T3) THEN Result(T3, Status(T3), NoRID, data)
        ELSE storeRecord(T3, pageIndex, pageToPin, rs, data, w)

\* insertRecord from the search for a page with room on.
choosePage(T1, rs, data, w) ==
    LET found == findFreePageIndex(T1)
        T2 == IF found = -1 THEN appendDataPage(T1) ELSE T1
    IN  IF Failed(T2) THEN Result(T2, Status(T2), NoRID, data)
        ELSE pinAndStore(T2,
                         IF found = -1 THEN T1.numPages - T1.numPageDP + 1
                         ELSE found,
                         rs, data, w)

insertRecord(T, rs, data, w) ==
    LET needNewDirectory == T.numPages > maxEntriesPerPage * T.numPageDP
        T1 == IF needNewDirectory THEN appendDirectoryPage(T) ELSE T
    IN  IF Failed(T1) THEN Result(T1, Status(T1), NoRID, data)
        ELSE choosePage(T1, rs, data, w)

\* deleteRecord's stores into the page: the slot is flagged free, then the
\* marker is put at the offset the slot entry holds.
tombstone(pageData, slot, w) ==
    LET freed == WriteCells(pageData, slot * SizeofSlotDirectoryEntry + 1, << 1 >>)
    IN  WriteCells(freed, SlotOffset(freed, slot, w), << DELETED_RECORD_MARKER >>)

\* A deleteRecord that credits the record's room before it looks at isFree.
deleteOnPageCredits(T1, b, rs, id, w) ==
    LET pageData == T1.pool[b].data
        C == updatePageStatistics(T1, rs, id.page, rs)
        T2 == Wrote([C EXCEPT !.pool[b].data = tombstone(pageData, id.slot, w)], b)
        T4 == markUnpinSave(T2, b)
    IN  IF Failed(T1) THEN Result(T1, Status(T1), id, << >>)
        ELSE IF SlotIsFree(pageData, id.slot, w)
        THEN Result(Ignored(unpinPage(C, b), "RC_RM_RECORD_NOT_FOUND"),
                    "RC_RM_RECORD_NOT_FOUND", id, << >>)
        ELSE Result(T4, Status(T4), id, << >>)

\* deleteRecord from the return of pinPage on; b is the block pinned.
deleteOnPage(T1, b, rs, id, w) ==
    LET pageData == T1.pool[b].data
        slotAt == id.slot * SizeofSlotDirectoryEntry
        offset == SlotOffset(WriteCells(pageData, slotAt + 1, << 1 >>), id.slot, w)
        T2 == Wrote([T1 EXCEPT
                       !.pool[b].data = tombstone(pageData, id.slot, w),
                       !.wild = @ \/ OutOfFrame(slotAt, SizeofSlotDirectoryEntry)
                                  \/ OutOfFrame(offset, 1)], b)
        T4 == markUnpinSave(updatePageStatistics(T2, rs, id.page, rs), b)
    IN  IF Failed(T1) THEN Result(T1, Status(T1), id, << >>)
        ELSE IF SlotIsFree(pageData, id.slot, w)
        THEN Result(Ignored(unpinPage(T1, b), "RC_RM_RECORD_NOT_FOUND"),
                    "RC_RM_RECORD_NOT_FOUND", id, << >>)
        ELSE Result(T4, Status(T4), id, << >>)

deleteRecord(T, rs, id, w) ==
    IF ~isValidRecordID(id, T.numPages)
    THEN Result(Ignored(T, "RC_RM_INVALID_RID"), "RC_RM_INVALID_RID", id, << >>)
    ELSE deleteOnPage(pinPage(T, id.page + T.numPageDP + 1),
                      id.page + T.numPageDP + 1, rs, id, w)

\* A getRecord that returns RC_RM_RECORD_NOT_FOUND with the page still pinned.
getFromPageKeepsPin(T1, b, rs, id, w) ==
    LET pageData == T1.pool[b].data
        offset == SlotOffset(pageData, id.slot, w)
        T3 == unpinPage(alloc(T1), b)
    IN  IF Failed(T1) THEN Result(T1, Status(T1), id, << >>)
        ELSE IF SlotIsFree(pageData, id.slot, w)
        THEN Result(Ignored(T1, "RC_RM_RECORD_NOT_FOUND"),
                    "RC_RM_RECORD_NOT_FOUND", id, << >>)
        ELSE Result(T3, Status(T3), id, ReadCells(pageData, offset, rs, w))

\* getRecord from the return of pinPage on.  The caller's record has no data
\* buffer, so one is allocated.
getFromPage(T1, b, rs, id, w) ==
    LET pageData == T1.pool[b].data
        offset == SlotOffset(pageData, id.slot, w)
        T2 == alloc(T1)
        T3 == unpinPage([T2 EXCEPT !.wild = @ \/ OutOfFrame(offset, rs)
                              \/ OutOfFrame(id.slot * SizeofSlotDirectoryEntry,
                                            SizeofSlotDirectoryEntry)], b)
    IN  IF Failed(T1) THEN Result(T1, Status(T1), id, << >>)
        ELSE IF SlotIsFree(pageData, id.slot, w)
        THEN Result(Ignored(unpinPage(T1, b), "RC_RM_RECORD_NOT_FOUND"),
                    "RC_RM_RECORD_NOT_FOUND", id, << >>)
        ELSE IF Failed(T2)
        THEN Result(Ignored(unpinPage(T2, b), Status(T2)), Status(T2), id, << >>)
        ELSE IF Failed(T3) THEN Result(T3, Status(T3), id, << >>)
        ELSE Result(T3, "RC_OK", id, ReadCells(pageData, offset, rs, w))

getRecord(T, rs, id, w) ==
    IF ~isValidRecordID(id, T.numPages)
    THEN Result(Ignored(T, "RC_RM_INVALID_RID"), "RC_RM_INVALID_RID", id, << >>)
    ELSE getFromPage(pinPage(T, id.page + T.numPageDP + 1),
                     id.page + T.numPageDP + 1, rs, id, w)

\* updateRecord's delete-and-reinsert, from the return of deleteRecord on.
reinsert(del, rs, id, data, w) ==
    IF del.rc # "RC_OK" THEN Result(del.T, del.rc, id, data)
    ELSE insertRecord(del.T, rs, data, w)

\* updateRecord's copy in place, from the return of markDirty on.
unpinUpdated(M, b, id, data) ==
    LET U == unpinPage(M, b)
    IN  IF Failed(M) THEN Result(Ignored(U, Status(M)), Status(M), id, data)
        ELSE Result(U, Status(U), id, data)

\* updateRecord from the return of pinPage on.
updateOnPage(T1, b, rs, id, data, w) ==
    LET pageBuffer == T1.pool[b].data
        slotAt == id.slot * SizeofSlotDirectoryEntry
        offset == SlotOffset(pageBuffer, id.slot, w)
        requiredSize == rs
        known == id.page + 1 <= Len(T1.pageDirectory)
        freeSpace == IF known THEN T1.pageDirectory[id.page + 1].freeSpace ELSE w
        spaceAvailable == freeSpace + (offset - slotAt)
        T2 == [T1 EXCEPT !.wild = @ \/ ~known
                            \/ OutOfFrame(slotAt, SizeofSlotDirectoryEntry)]
    IN  IF Failed(T1) THEN Result(T1, Status(T1), id, data)
        ELSE IF SlotIsFree(pageBuffer, id.slot, w)
        THEN Result(Ignored(unpinPage(T1, b), "RC_RM_RECORD_NOT_FOUND"),
                    "RC_RM_RECORD_NOT_FOUND", id, data)
        ELSE IF requiredSize > spaceAvailable
        THEN reinsert(deleteRecord(Ignored(unpinPage(T2, b), "RC_OK"), rs, id, w),
                      rs, id, data, w)
        ELSE unpinUpdated(
               markDirty(
                 Wrote([T2 EXCEPT
                          !.pool[b].data = WriteCells(pageBuffer, offset, data),
                          !.wild = @ \/ OutOfFrame(offset, rs)], b), b),
               b, id, data)

updateRecord(T, rs, id, data, w) ==
    IF ~isValidRecordID(id, T.numPages)
    THEN Result(Ignored(T, "RC_RM_INVALID_RID"), "RC_RM_INVALID_RID", id, data)
    ELSE updateOnPage(pinPage(T, id.page + T.numPageDP + 1),
                      id.page + T.numPageDP + 1, rs, id, data, w)

\* -------------------------------------------------------------------- scan
\* active stands for scan->mgmtData not being NULL.  seen, clean, done and
\* last record what the scan has returned; closes and frees count the
\* closeScan calls since the scan was started and the times they freed the
\* scan info.
NoScan == [active |-> FALSE, condition |-> "NULL", currentPage |-> 0,
           currentSlot |-> 0, seen |-> << >>, clean |-> TRUE, done |-> FALSE,
           last |-> NoRID, closes |-> 0, frees |-> 0]

startScan(condition) ==
    [active |-> TRUE, condition |-> condition, currentPage |-> 0,
     currentSlot |-> 0, seen |-> << >>, clean |-> TRUE, done |-> FALSE,
     last |-> NoRID, closes |-> 0, frees |-> 0]

\* A closeScan that frees the scan info and leaves scan->mgmtData as it was.
closeScanKeepsPointer(sc) ==
    [sc |-> [sc EXCEPT !.closes = @ + 1, !.frees = @ + 1],
     rc |-> "RC_OK", freed |-> TRUE]

closeScan(sc) ==
    IF ~sc.active
    THEN [sc |-> [sc EXCEPT !.closes = @ + 1], rc |-> "RC_OK", freed |-> FALSE]
    ELSE [sc |-> [NoScan EXCEPT !.closes = sc.closes + 1, !.frees = sc.frees + 1],
          rc |-> "RC_OK", freed |-> TRUE]

ceilDivision(numerator, denominator) ==
    (numerator + denominator - 1) \div denominator

\* The block next pins for data page index p.
ScanPageNum(p) == ceilDivision(p + 1, maxEntriesPerPage) + 1 + p

\* The two loops of next from cursor (page, slot): the first slot that is not
\* free and meets the condition ends the call.  The caller's record has no
\* data buffer, so the first slot that is not free allocates one.
RECURSIVE scanFrom(_, _, _, _, _, _)

\* One round of the outer loop, from the return of pinPage on.
scanPage(T1, pageNum, rs, condition, page, slot, w) ==
    LET pageData == T1.pool[pageNum].data
        recordCount == T1.pageDirectory[page + 1].recordCount
        record(s) == ReadCells(pageData, SlotOffset(pageData, s, w), rs, w)
        conditionMet(s) ==
            evalExpr(record(s), condition) \/ condition = "NULL"
        inUse == {s \in slot .. recordCount - 1 : ~SlotIsFree(pageData, s, w)}
        hits == {s \in inUse : conditionMet(s)}
        hit == CHOOSE s \in hits : \A x \in hits : s <= x
        last == IF hits = {} THEN recordCount - 1 ELSE hit
        strayed == \E s \in slot .. last :
                      \/ OutOfFrame(s * SizeofSlotDirectoryEntry,
                                    SizeofSlotDirectoryEntry)
                      \/ /\ ~SlotIsFree(pageData, s, w)
                         /\ OutOfFrame(SlotOffset(pageData, s, w), rs)
        hasBuffer == \E i \in 1 .. Len(T1.log) : T1.log[i].op = "alloc"
        T2 == IF inUse # {} /\ ~hasBuffer THEN alloc(T1) ELSE T1
        T3 == Ignored(unpinPage([T2 EXCEPT !.wild = @ \/ strayed], pageNum), "RC_OK")
    IN  IF Failed(T1)
        THEN [T |-> T1, rc |-> Status(T1), id |-> NoRID, data |-> << >>,
              currentPage |-> page, currentSlot |-> slot]
        ELSE IF Failed(T2)
        THEN [T |-> Ignored(unpinPage(T2, pageNum), Status(T2)), rc |-> Status(T2),
              id |-> NoRID, data |-> << >>, currentPage |-> page,
              currentSlot |-> CHOOSE s \in inUse : \A x \in inUse : s <= x]
        ELSE IF hits # {}
        THEN [T |-> T3, rc |-> "RC_OK", id |-> RID(page, hit),
              data |-> record(hit), currentPage |-> page,
              currentSlot |-> hit + 1]
        ELSE scanFrom(T3, rs, condition, page + 1, 0, w)

scanFrom(T, rs, condition, page, slot, w) ==
    IF page >= NumDataPages(T)
    THEN [T |-> Ignored(T, "RC_RM_NO_MORE_TUPLES"), rc |-> "RC_RM_NO_MORE_TUPLES",
          id |-> NoRID, data |-> << >>, currentPage |-> page, currentSlot |-> slot]
    ELSE scanPage(pinPage(T, ScanPageNum(page)), ScanPageNum(page),
                  rs, condition, page, slot, w)

\* A next that scans from the first slot of the first page on every call.
nextFromStart(T, rs, sc, w) == scanFrom(T, rs, sc.condition, 0, 0, w)

next(T, rs, sc, w) ==
    scanFrom(T, rs, sc.condition, sc.currentPage, sc.currentSlot, w)

\* ------------------------------------------------------ schema and record
\* sizeof(float) and sizeof(bool), in cells.
SizeofFloat == 1
SizeofBool == 1

Attr(dataType, typeLength) == [dataType |-> dataType, typeLength |-> typeLength]

AttrSize(a) ==
    CASE a.dataType = "DT_INT" -> SizeofInt
      [] a.dataType = "DT_FLOAT" -> SizeofFloat
      [] a.dataType = "DT_BOOL" -> SizeofBool
      [] a.dataType = "DT_STRING" -> a.typeLength
      [] OTHER -> 0

\* An offset that counts every attribute before attrIdx as an int.
calculateAttributeOffsetAsInts(sch, attrIdx) == attrIdx * SizeofInt

calculateAttributeOffset(sch, attrIdx) ==
    LET sum[i \in 0 .. attrIdx] ==
            IF i = 0 THEN 0 ELSE sum[i - 1] + AttrSize(sch[i])
    IN  sum[attrIdx]

computeRecordSize(sch) == calculateAttributeOffset(sch, Len(sch))

\* createRecord: calloc(1, recordSize)
createRecord(sch) == [i \in 1 .. computeRecordSize(sch) |-> 0]

\* strncpy(dst, src, n) from a string: its characters up to n, then zeros up
\* to n.
strncpy(src, n) == [i \in 1 .. n |-> IF i <= Len(src) THEN src[i] ELSE 0]

\* The string a zero-terminated buffer holds: its cells before the first zero.
RECURSIVE CString(_)
CString(cells) ==
    IF cells = << >> \/ Head(cells) = 0 THEN << >>
    ELSE << Head(cells) >> \o CString(Tail(cells))

\* memcpy of n cells into the record at offset.
PutCells(data, offset, cells) ==
    [i \in 1 .. Len(data) |->
        IF i > offset /\ i <= offset + Len(cells) THEN cells[i - offset] ELSE data[i]]

\* A Value: its type and, for a string, its characters; for the other types
\* the cell that holds it.
Val(dt, v) == [dt |-> dt, v |-> v]

setAttr(data, sch, attrNum, value) ==
    IF attrNum < 0 \/ attrNum >= Len(sch)
    THEN [rc |-> "RC_RM_INVALID_ATTRIBUTE", data |-> data]
    ELSE IF value.dt # sch[attrNum + 1].dataType
    THEN [rc |-> "RC_RM_ATTRIBUTE_TYPE_MISMATCH", data |-> data]
    ELSE LET offset == calculateAttributeOffset(sch, attrNum)
         IN  IF value.dt = "DT_STRING"
             THEN [rc |-> "RC_OK",
                   data |-> PutCells(data, offset,
                                     strncpy(value.v, sch[attrNum + 1].typeLength))]
             ELSE [rc |-> "RC_OK", data |-> PutCells(data, offset, << value.v >>)]

getAttr(data, sch, attrNum) ==
    IF attrNum < 0 \/ attrNum >= Len(sch)
    THEN [rc |-> "RC_RM_INVALID_ATTRIBUTE", value |-> Val("none", 0)]
    ELSE LET offset == calculateAttributeOffset(sch, attrNum)
             dt == sch[attrNum + 1].dataType
             n == sch[attrNum + 1].typeLength
         IN  IF dt = "DT_STRING"
             THEN [rc |-> "RC_OK",
                   value |-> Val(dt, CString(
                                 strncpy(CString(SubSeq(data, offset + 1, offset + n)), n)
                                 \o << 0 >>))]
             ELSE [rc |-> "RC_OK", value |-> Val(dt, data[offset + 1])]

\* ------------------------------------------------------------ schema page
\* sizeof(DataType), in cells, and the values of the enum DataType.
SizeofDataType == 1
DataTypeCode(dt) ==
    CASE dt = "DT_INT" -> 0
      [] dt = "DT_STRING" -> 1
      [] dt = "DT_FLOAT" -> 2
      [] dt = "DT_BOOL" -> 3

DataTypeOf(code) ==
    CASE code = 0 -> "DT_INT"
      [] code = 1 -> "DT_STRING"
      [] code = 2 -> "DT_FLOAT"
      [] code = 3 -> "DT_BOOL"
      [] OTHER -> "none"

\* A Schema: attrNames are strings, dataTypes, typeLength and keyAttrs arrays.
SchemaOf(attrNames, dataTypes, typeLength, keyAttrs) ==
    [numAttr |-> Len(attrNames), attrNames |-> attrNames, dataTypes |-> dataTypes,
     typeLength |-> typeLength, keySize |-> Len(keyAttrs), keyAttrs |-> keyAttrs]

NoSchema == SchemaOf(<< >>, << >>, << >>, << >>)

\* The cells the first i attribute names take in the schema page, each with
\* its terminator.
RECURSIVE NameCells(_, _)
NameCells(attrNames, i) ==
    IF i = 0 THEN << >>
    ELSE NameCells(attrNames, i - 1) \o attrNames[i] \o << 0 >>

\* createTable up to the write of block 0: each field is copied to the page
\* after a check that it fits.
serializeSchema(s) ==
    LET names == NameCells(s.attrNames, s.numAttr)
        afterNames == SizeofInt + Len(names)
        afterTypes == afterNames + s.numAttr * SizeofDataType
        afterLengths == afterTypes + s.numAttr * SizeofInt
        full ==
            \/ 0 + SizeofInt > PAGE_SIZE
            \/ \E i \in 1 .. s.numAttr :
                  SizeofInt + Len(NameCells(s.attrNames, i)) > PAGE_SIZE
            \/ afterTypes > PAGE_SIZE
            \/ afterLengths > PAGE_SIZE
            \/ afterLengths + SizeofInt + s.keySize * SizeofInt > PAGE_SIZE
        cells == << s.numAttr >> \o names
                 \o [i \in 1 .. s.numAttr |-> DataTypeCode(s.dataTypes[i])]
                 \o s.typeLength \o << s.keySize >> \o s.keyAttrs
    IN  IF full THEN [rc |-> "RC_PAGE_FULL", page |-> ZeroPage]
        ELSE [rc |-> "RC_OK", page |-> WriteCells(ZeroPage, 0, cells)]

\* strlen(schemaData + position)
StrLen(page, position) ==
    CHOOSE n \in 0 .. PAGE_SIZE :
        /\ Cell(page, position + n, 0) = 0
        /\ \A m \in 0 .. n - 1 : Cell(page, position + m, 0) # 0

\* A deserializer that steps over a name without its terminator.
nameStartsUnterminated(page, numAttr) ==
    LET start[i \in 0 .. numAttr] ==
            IF i = 0 THEN SizeofInt
            ELSE start[i - 1] + StrLen(page, start[i - 1])
    IN  start

\* The position of each attribute name in the schema page, and after the
\* last of them the position of the data types.
nameStarts(page, numAttr) ==
    LET start[i \in 0 .. numAttr] ==
            IF i = 0 THEN SizeofInt
            ELSE start[i - 1] + StrLen(page, start[i - 1]) + 1
    IN  start

\* openTable from the copy of block 0 on: the fields are read back in order.
deserializeSchema(page) ==
    LET numAttr == page[0]
        start == nameStarts(page, numAttr)
        types == start[numAttr]
        lengths == types + numAttr * SizeofDataType
        keys == lengths + numAttr * SizeofInt
        keySize == Cell(page, keys, 0)
    IN  [numAttr |-> numAttr,
         attrNames |-> [i \in 1 .. numAttr |->
                          ReadCells(page, start[i - 1], StrLen(page, start[i - 1]), 0)],
         dataTypes |-> [i \in 1 .. numAttr |->
                          DataTypeOf(Cell(page, types + (i - 1) * SizeofDataType, 0))],
         typeLength |-> [i \in 1 .. numAttr |->
                           Cell(page, lengths + (i - 1) * SizeofInt, 0)],
         keySize |-> keySize,
         keyAttrs |-> [i \in 1 .. keySize |->
                         Cell(page, keys + SizeofInt + (i - 1) * SizeofInt, 0)]]

\* No table has been created from a schema of the caller's.
NoCatalog == [given |-> NoSchema, rc |-> "none", page |-> ZeroPage,
              opened |-> NoSchema, read |-> FALSE]

\* ------------------------------------------------------------ table lifecycle
\* createTable: block 1 holds numPages = 1, numPageDP = 1 and the entry of
\* data page 0.
CreatedDirectory ==
    [numPages |-> 1, numPageDP |-> 1,
     pageDirectory |-> << initPageDirectoryEntry(0) >>]

createTable ==
    [b \in Blocks |->
        IF b = 1 THEN [c \in Cells |-> DirectoryCell(CreatedDirectory, c)]
        ELSE ZeroPage]

\* openTable: a fresh pool, then the directory is read from block 1.  The
\* frames of blocks 0 and 1 are never pinned again and are not kept.
openTable(T, w) == loadPageDirectoryFromDisk([T EXCEPT !.pool = << >>], w)

\* closeTable: the pool is shut down and the handle's memory is released.
closeTable(T) ==
    [shutdownBufferPool(T) EXCEPT
        !.numPages = 0, !.numPageDP = 0, !.pageDirectory = << >>]

\* What the handle's two pointers point to after openTable.
OpenedHandle == [schema |-> "live", managementData |-> "live"]

\* What closeTable releases through rel->schema and through
\* rel->managementData.
SchemaResources == {"schema"}
ManagementResources ==
    {"page directory", "buffer pool", "page file", "management data"}

\* What a call that reads and frees released memory can end in.
Outcomes == {"RC_OK", "abort"}

\* closeTable as the handle sees it: it returns at once when a pointer is
\* NULL; otherwise it releases what the pointers point to and leaves the
\* pointers as they are.  again is what it reads or releases that was
\* released before, with outcome u when there is any.
closeTableHandle(h, u) ==
    IF h.managementData = "NULL" \/ h.schema = "NULL"
    THEN [rel |-> h, rc |-> "RC_OK", again |-> {}]
    ELSE LET again ==
                 (IF h.schema = "freed" THEN SchemaResources ELSE {})
                 \cup (IF h.managementData = "freed" THEN ManagementResources
                       ELSE {})
         IN  [rel |-> [schema |-> "freed", managementData |-> "freed"],
              rc |-> IF again = {} THEN "RC_OK" ELSE u,
              again |-> again]

\* ------------------------------------------------------------------ actions
\* The RIDs a caller passes: every slot up to MaxSlot of every page index the
\* range check admits, and one page index beyond.
InputRIDs == {RID(p, s) : p \in 0 .. numPages, s \in 0 .. MaxSlot}

SetTable(T) ==
    /\ numPages' = T.numPages
    /\ numPageDP' = T.numPageDP
    /\ pageDirectory' = T.pageDirectory
    /\ disk' = T.disk
    /\ pool' = T.pool
    /\ wild' = T.wild

Disturbed == [scan EXCEPT !.clean = FALSE]

\* What a record or scan operation leaves alone when every call it makes
\* succeeds: the handle's pointers and the caller's schema and record.
AttrAside == UNCHANGED << schema, recordData, lastSet, nFault, catalog >>
Aside == AttrAside /\ UNCHANGED << rel, reused, aborted >>

\* The schemas a table is created with.
TableSchemas ==
    { << Attr("DT_INT", 0) >>,
      << Attr("DT_INT", 0), Attr("DT_STRING", 2), Attr("DT_BOOL", 0) >> }

NoAttrSet == [attrNum |-> -1, value |-> Val("none", 0)]

\* The state after createTable and openTable, whatever the schema.
Constructed ==
    /\ recordSize = computeRecordSize(schema)
    /\ recordData = createRecord(schema)
    /\ lastSet = NoAttrSet
    /\ nFault = 0
    /\ catalog = NoCatalog
    /\ rel = OpenedHandle
    /\ reused = {}
    /\ aborted = FALSE

\* The schemas records are built for, and the values setAttr is given: a
\* string of every length up to MaxStr, shorter and longer than typeLength.
AttrSchemas ==
    { << Attr("DT_INT", 0), Attr("DT_STRING", 2), Attr("DT_BOOL", 0) >>,
      << Attr("DT_FLOAT", 0), Attr("DT_STRING", 1), Attr("DT_INT", 0) >>,
      << Attr("DT_STRING", 2), Attr("DT_BOOL", 0), Attr("DT_STRING", 1) >> }

Chars == {65, 66}

Strings == UNION {[1 .. n -> Chars] : n \in 0 .. MaxStr}

AttrValues ==
    {Val("DT_INT", v) : v \in {0, 7, 255}}
    \cup {Val("DT_FLOAT", v) : v \in {0, 9}}
    \cup {Val("DT_BOOL", v) : v \in {0, 1}}
    \cup {Val("DT_STRING", v) : v \in Strings}

Created ==
    /\ isOpen = TRUE
    /\ numPages = 1
    /\ numPageDP = 1
    /\ pageDirectory = << initPageDirectoryEntry(0) >>
    /\ disk = createTable
    /\ pool = << >>
    /\ wild = FALSE
    /\ scan = NoScan
    /\ live = {}
    /\ dead = {}
    /\ nIns = 0
    /\ nDel = 0
    /\ nUpd = 0
    /\ nOpen = 0

Init ==
    /\ schema \in TableSchemas
    /\ computeRecordSize(schema) \in RecordSizes
    /\ Constructed
    /\ Created

InitAttr ==
    /\ schema \in AttrSchemas
    /\ Constructed
    /\ Created

TableAside ==
    UNCHANGED << isOpen, recordSize, numPages, numPageDP, pageDirectory, disk, pool,
                 wild, scan, live, dead, nIns, nDel, nUpd, nOpen, rel, reused,
                 aborted, schema, nFault, catalog >>

\* createRecord, replacing the caller's record.
CreateRecord ==
    /\ recordData' = createRecord(schema)
    /\ lastSet' = NoAttrSet
    /\ TableAside

\* setAttr on the caller's record.
SetAttr(attrNum, value) ==
    /\ LET r == setAttr(recordData, schema, attrNum, value)
       IN  /\ recordData' = r.data
           /\ lastSet' = IF r.rc = "RC_OK"
                         THEN [attrNum |-> attrNum, value |-> value]
                         ELSE lastSet
    /\ TableAside

\* The schemas a caller creates tables from: up to MaxAttr attributes with
\* names of zero to two characters, and zero to two key attributes.
AttrNames == {<< >>, << 97 >>, << 97, 98 >>}
TypedLengths == {<< "DT_INT", 0 >>, << "DT_STRING", 2 >>}
KeyLists == {<< >>, << 0 >>, << 1, 0 >>}

GivenSchemas ==
    UNION {{SchemaOf(names, [i \in 1 .. n |-> typed[i][1]],
                     [i \in 1 .. n |-> typed[i][2]], keys) :
               names \in [1 .. n -> AttrNames], typed \in [1 .. n -> TypedLengths],
               keys \in KeyLists} : n \in 1 .. MaxAttr}

SchemaAside ==
    UNCHANGED << isOpen, recordSize, numPages, numPageDP, pageDirectory, disk, pool,
                 wild, scan, live, dead, nIns, nDel, nUpd, nOpen, rel, reused,
                 aborted, schema, recordData, lastSet, nFault >>

\* createTable of another table, from schema s.
CreateTable(s) ==
    /\ catalog.rc = "none"
    /\ LET r == serializeSchema(s)
       IN  catalog' = [given |-> s, rc |-> r.rc, page |-> r.page,
                       opened |-> NoSchema, read |-> FALSE]
    /\ SchemaAside

\* openTable of that table, as far as rel->schema.
OpenCreated ==
    /\ catalog.rc = "RC_OK"
    /\ ~catalog.read
    /\ catalog' = [catalog EXCEPT !.opened = deserializeSchema(catalog.page),
                                  !.read = TRUE]
    /\ SchemaAside

InsertUpTo(limit, data, w) ==
    /\ isOpen
    /\ nIns < limit
    /\ LET r == insertRecord(Tbl, recordSize, data, w)
       IN  /\ SetTable(r.T)
           /\ live' = live \cup {r.id}
           /\ dead' = dead \ {r.id}
    /\ nIns' = nIns + 1
    /\ scan' = Disturbed
    /\ UNCHANGED << isOpen, recordSize, nDel, nUpd, nOpen >>
    /\ Aside

Insert(data, w) == InsertUpTo(MaxIns, data, w)

DeleteUpTo(limit, id, w) ==
    /\ isOpen
    /\ nDel < limit
    /\ LET r == deleteRecord(Tbl, recordSize, id, w)
           ok == r.rc = "RC_OK"
       IN  /\ SetTable(r.T)
           /\ live' = IF ok THEN live \ {id} ELSE live
           /\ dead' = IF ok /\ id \in live THEN dead \cup {id} ELSE dead
           /\ nDel' = IF ok THEN nDel + 1 ELSE nDel
           /\ scan' = IF ok THEN Disturbed ELSE scan
    /\ UNCHANGED << isOpen, recordSize, nIns, nUpd, nOpen >>
    /\ Aside

Delete(id, w) == DeleteUpTo(MaxDel, id, w)

Update(id, data, w) ==
    /\ isOpen
    /\ nUpd < MaxUpd
    /\ LET r == updateRecord(Tbl, recordSize, id, data, w)
           ok == r.rc = "RC_OK"
           moved == r.id # id
       IN  /\ SetTable(r.T)
           /\ live' = IF moved THEN (live \ {id}) \cup {r.id} ELSE live
           /\ dead' = IF moved THEN (dead \cup ({id} \cap live)) \ {r.id} ELSE dead
           /\ nUpd' = IF ok THEN nUpd + 1 ELSE nUpd
           /\ scan' = IF ok THEN Disturbed ELSE scan
    /\ UNCHANGED << isOpen, recordSize, nIns, nDel, nOpen >>
    /\ Aside

Get(id, w) ==
    /\ isOpen
    /\ SetTable(getRecord(Tbl, recordSize, id, w).T)
    /\ UNCHANGED << isOpen, recordSize, scan, live, dead, nIns, nDel, nUpd, nOpen >>
    /\ Aside

StartScan(condition) ==
    /\ isOpen
    /\ ~scan.active
    /\ scan' = startScan(condition)
    /\ UNCHANGED << isOpen, recordSize, numPages, numPageDP, pageDirectory, disk,
                    pool, wild, live, dead, nIns, nDel, nUpd, nOpen >>
    /\ Aside

ScanNext(w) ==
    /\ isOpen
    /\ scan.active
    /\ LET r == next(Tbl, recordSize, scan, w)
       IN  /\ SetTable(r.T)
           /\ scan' = [scan EXCEPT
                         !.currentPage = r.currentPage,
                         !.currentSlot = r.currentSlot,
                         !.seen = IF r.rc = "RC_OK" /\ ~scan.done
                                  THEN Append(@, r.id) ELSE @,
                         !.done = @ \/ r.rc # "RC_OK",
                         !.last = IF r.rc = "RC_OK" THEN r.id ELSE @]
    /\ UNCHANGED << isOpen, recordSize, live, dead, nIns, nDel, nUpd, nOpen >>
    /\ Aside

CloseScan ==
    /\ scan.active
    /\ ~aborted
    /\ scan' = closeScan(scan).sc
    /\ UNCHANGED << isOpen, recordSize, numPages, numPageDP, pageDirectory, disk,
                    pool, wild, live, dead, nIns, nDel, nUpd, nOpen >>
    /\ Aside

CloseTable ==
    /\ isOpen
    /\ nOpen < MaxOpen
    /\ SetTable(closeTable(Tbl))
    /\ isOpen' = FALSE
    /\ rel' = closeTableHandle(rel, "RC_OK").rel
    /\ UNCHANGED << reused, aborted >>
    /\ scan' = Disturbed
    /\ UNCHANGED << recordSize, live, dead, nIns, nDel, nUpd, nOpen >>
    /\ AttrAside

OpenTable(w) ==
    /\ ~isOpen
    /\ ~aborted
    /\ SetTable(openTable(Tbl, w))
    /\ rel' = OpenedHandle
    /\ UNCHANGED << reused, aborted >>
    /\ isOpen' = TRUE
    /\ nOpen' = nOpen + 1
    /\ UNCHANGED << recordSize, scan, live, dead, nIns, nDel, nUpd >>
    /\ AttrAside

\* T with its f-th call to a collaborator failing.
Faulty(T, f) == [T EXCEPT !.failAt = f]

\* The directory array has an entry for every data page counted.  (A failed
\* realloc in insertRecord leaves numPages one ahead of the array; every
\* later call then reads past its end.)
ArrayCovers(T) == Len(T.pageDirectory) >= NumDataPages(T)

\* insertRecord in which call f fails.
FaultyInsert(data, w, f) ==
    /\ isOpen
    /\ nFault < MaxFault
    /\ LET r == insertRecord(Faulty(Tbl, f), recordSize, data, w)
       IN  /\ r.rc # "RC_OK"
           /\ ArrayCovers(r.T)
           /\ SetTable(r.T)
           /\ dead' = dead \ {r.id}
    /\ nFault' = nFault + 1
    /\ scan' = Disturbed
    /\ UNCHANGED << isOpen, recordSize, live, nIns, nDel, nUpd, nOpen, rel, reused,
                    aborted, schema, recordData, lastSet, catalog >>

\* deleteRecord in which call f fails.
FaultyDelete(id, w, f) ==
    /\ isOpen
    /\ nFault < MaxFault
    /\ LET r == deleteRecord(Faulty(Tbl, f), recordSize, id, w)
       IN  /\ r.rc \notin {"RC_OK", "RC_RM_INVALID_RID", "RC_RM_RECORD_NOT_FOUND"}
           /\ SetTable(r.T)
    /\ nFault' = nFault + 1
    /\ scan' = Disturbed
    /\ UNCHANGED << isOpen, recordSize, live, dead, nIns, nDel, nUpd, nOpen, rel,
                    reused, aborted, schema, recordData, lastSet, catalog >>

\* closeTable on a handle closeTable has been called on.
CloseTableAgain(u) ==
    /\ ~isOpen
    /\ ~aborted
    /\ LET r == closeTableHandle(rel, u)
       IN  /\ rel' = r.rel
           /\ reused' = reused \cup r.again
           /\ aborted' = (r.rc = "abort")
    /\ UNCHANGED << isOpen, recordSize, numPages, numPageDP, pageDirectory, disk,
                    pool, wild, scan, live, dead, nIns, nDel, nUpd, nOpen >>
    /\ AttrAside

\* closeScan on a scan closeScan has been called on.
CloseScanAgain ==
    /\ ~scan.active
    /\ ~aborted
    /\ scan.closes \in 1 .. MaxClose - 1
    /\ scan' = closeScan(scan).sc
    /\ UNCHANGED << isOpen, recordSize, numPages, numPageDP, pageDirectory, disk,
                    pool, wild, live, dead, nIns, nDel, nUpd, nOpen >>
    /\ Aside

\* The buffer pool replaces a frame no call has pinned.
Evict(b) ==
    /\ isOpen
    /\ b \in DOMAIN pool
    /\ SetTable(evictFrame(Tbl, b))
    /\ UNCHANGED << isOpen, recordSize, scan, live, dead, nIns, nDel, nUpd, nOpen >>
    /\ Aside

NextInput == InputRecords(recordSize, nIns + nUpd + 1)

Next ==
    \/ \E data \in NextInput, w \in WildCells : Insert(data, w)
    \/ \E id \in InputRIDs, w \in WildCells : Delete(id, w)
    \/ \E id \in InputRIDs, data \in NextInput, w \in WildCells : Update(id, data, w)
    \/ \E id \in InputRIDs, w \in WildCells : Get(id, w)
    \/ \E condition \in Conditions : StartScan(condition)
    \/ \E w \in WildCells : ScanNext(w)
    \/ CloseScan
    \/ CloseTable
    \/ \E w \in WildCells : OpenTable(w)
    \/ \E b \in Blocks : Evict(b)
    \/ CloseScanAgain
    \/ \E u \in Outcomes : CloseTableAgain(u)
    \/ \E data \in NextInput, w \in WildCells, f \in 1 .. MaxCalls :
          FaultyInsert(data, w, f)
    \/ \E id \in InputRIDs, w \in WildCells, f \in 1 .. MaxCalls :
          FaultyDelete(id, w, f)
    \/ CreateRecord
    \/ \E attrNum \in -1 .. Len(schema), value \in AttrValues :
          SetAttr(attrNum, value)
    \/ \E s \in GivenSchemas : CreateTable(s)
    \/ OpenCreated

Spec == Init /\ [][Next]_vars

\* A caller that inserts, deletes, updates and reads records by RID.
NextRecords ==
    \/ \E data \in NextInput, w \in WildCells : Insert(data, w)
    \/ \E id \in InputRIDs, w \in WildCells : Delete(id, w)
    \/ \E id \in InputRIDs, data \in NextInput, w \in WildCells : Update(id, data, w)
    \/ \E id \in InputRIDs, w \in WildCells : Get(id, w)
    \/ \E b \in Blocks : Evict(b)

SpecRecords == Init /\ [][NextRecords]_vars

\* A caller that fills pages until the directory grows, and deletes records
\* of its own.
GrowInsert(data, w) == InsertUpTo(GrowIns, data, w)
GrowDelete(id, w) == DeleteUpTo(GrowDel, id, w)

NextGrow ==
    \/ \E data \in NextInput, w \in WildCells : GrowInsert(data, w)
    \/ \E id \in live, w \in WildCells : GrowDelete(id, w)
    \/ \E b \in Blocks : Evict(b)

SpecGrow == Init /\ [][NextGrow]_vars

\* A caller that deletes records of its own and inserts into the room they left.
ReuseInsert(data, w) == InsertUpTo(ReuseIns, data, w)

NextReuse ==
    \/ \E data \in NextInput, w \in WildCells : ReuseInsert(data, w)
    \/ \E id \in live, w \in WildCells : Delete(id, w)
    \/ \E b \in Blocks : Evict(b)

SpecReuse == Init /\ [][NextReuse]_vars

\* A caller that scans a table it inserts into, deletes its own records
\* from, and closes and opens again; the pool never has to replace a frame.
NextScan ==
    \/ \E data \in NextInput, w \in WildCells : Insert(data, w)
    \/ \E id \in live, w \in WildCells : Delete(id, w)
    \/ \E condition \in Conditions : StartScan(condition)
    \/ \E w \in WildCells : ScanNext(w)
    \/ CloseScan
    \/ CloseTable
    \/ \E w \in WildCells : OpenTable(w)

SpecScan == Init /\ [][NextScan]_vars

\* A caller that names only RIDs of its own live records, and closes the
\* table and opens it again; the pool never has to replace a frame.
NextReopen ==
    \/ \E data \in NextInput, w \in WildCells : Insert(data, w)
    \/ \E id \in live, w \in WildCells : Delete(id, w)
    \/ \E id \in live, data \in NextInput, w \in WildCells : Update(id, data, w)
    \/ CloseTable
    \/ \E w \in WildCells : OpenTable(w)

SpecReopen == Init /\ [][NextReopen]_vars

\* A caller whose buffer pool, storage manager or allocator fails a call.
NextFaults ==
    \/ \E data \in NextInput, w \in WildCells : Insert(data, w)
    \/ \E id \in live, w \in WildCells : Delete(id, w)
    \/ \E id \in live, data \in NextInput, w \in WildCells : Update(id, data, w)
    \/ \E data \in NextInput, w \in WildCells, f \in 1 .. MaxCalls :
          FaultyInsert(data, w, f)
    \/ \E id \in live, w \in WildCells, f \in 1 .. MaxCalls : FaultyDelete(id, w, f)

SpecFaults == Init /\ [][NextFaults]_vars

\* A caller that builds records attribute by attribute.
NextAttr ==
    \/ CreateRecord
    \/ \E attrNum \in -1 .. Len(schema), value \in AttrValues :
          SetAttr(attrNum, value)

SpecAttr == InitAttr /\ [][NextAttr]_vars

\* A caller that creates tables from its schemas and opens them.
NextSchema ==
    \/ \E s \in GivenSchemas : CreateTable(s)
    \/ OpenCreated

SpecSchema == Init /\ [][NextSchema]_vars

\* A caller that closes its scans and its table more than once.
NextClose ==
    \/ \E data \in NextInput, w \in WildCells : Insert(data, w)
    \/ \E condition \in Conditions : StartScan(condition)
    \/ \E w \in WildCells : ScanNext(w)
    \/ CloseScan
    \/ CloseScanAgain
    \/ CloseTable
    \/ \E u \in Outcomes : CloseTableAgain(u)
    \/ \E w \in WildCells : OpenTable(w)

SpecClose == Init /\ [][NextClose]_vars

\* Every block a call can name from here lies in Blocks.
BlocksInRange == isOpen => numPages + numPageDP + 3 <= MaxBlock

\* ------------------------------------------------------------------ claims
\* The RIDs of every slot a data page of this size can hold, one page beyond
\* the last.
SlotsPerPage == PAGE_SIZE \div SizeofSlotDirectoryEntry
AllRIDs == {RID(p, s) : p \in 0 .. numPages, s \in 0 .. SlotsPerPage - 1}

\* The bytes getRecord returns for id, or << >> when it does not return RC_OK.
Stored(T, id) ==
    LET g == getRecord(T, recordSize, id, 0)
    IN  IF g.rc = "RC_OK" THEN g.data ELSE << >>

\* C1: in every state of an open table, for every record, an insertRecord
\* that returns RC_OK followed at once by getRecord of the RID it assigned
\* returns RC_OK with the bytes inserted.
C1_InsertThenGet ==
    isOpen =>
        \A data \in NextInput, w \in WildCells, v \in WildCells :
            LET r == insertRecord(Tbl, recordSize, data, w)
                g == getRecord(r.T, recordSize, r.id, v)
            IN  r.rc = "RC_OK" => (g.rc = "RC_OK" /\ g.data = data)

\* The last of GrowIns inserts appended a directory page, and its record is
\* read back under the RID it was given.
C1_Witness ==
    /\ isOpen
    /\ numPageDP = 2
    /\ nIns = GrowIns
    /\ \E id \in live : Stored(Tbl, id) = [i \in 1 .. recordSize |->
                                             IF i = 1 THEN nIns ELSE 0]

\* C2: in every state of an open table, getNumTuples equals the number of
\* live slots, that is the successful inserts minus the successful deletes.
C2_CountIsLive ==
    isOpen => getNumTuples(Tbl) = Cardinality(live)

\* C3: a RID whose deleteRecord returned RC_OK, and that no later insert was
\* assigned, is not found by getRecord and is returned by no next, of the
\* scan in progress or of a scan started now.  (The claim has getRecord
\* answer RC_RM_RECORD_NOT_FOUND; any answer but RC_OK passes here.)
C3_DeleteHides ==
    isOpen =>
        \A id \in dead, w \in WildCells :
            /\ getRecord(Tbl, recordSize, id, w).rc # "RC_OK"
            /\ scan.active =>
                 LET r == next(Tbl, recordSize, scan, w)
                 IN  r.rc = "RC_OK" => r.id # id
            /\ \A condition \in Conditions :
                 LET r == next(Tbl, recordSize, startScan(condition), w)
                 IN  r.rc = "RC_OK" => r.id # id

\* C6: an updateRecord of a live record that returns RC_OK leaves the
\* record's RID as it was.
C6_UpdateKeepsRID ==
    isOpen =>
        \A id \in live, data \in NextInput, w \in WildCells :
            LET r == updateRecord(Tbl, recordSize, id, data, w)
            IN  r.rc = "RC_OK" => r.id = id

\* C7: if updateRecord of a live record returns RC_OK, getRecord of the
\* record's RID as it stands after the call returns RC_OK with the bytes of
\* the update.
C7_UpdateThenGet ==
    isOpen =>
        \A id \in live, data \in NextInput, w \in WildCells, v \in WildCells :
            LET r == updateRecord(Tbl, recordSize, id, data, w)
                g == getRecord(r.T, recordSize, r.id, v)
            IN  r.rc = "RC_OK" => (g.rc = "RC_OK" /\ g.data = data)

\* C8: closeTable followed by openTable leaves getNumTuples and the bytes
\* getRecord returns for every live RID as they were before the close.
C8_ReopenPreserves ==
    isOpen =>
        \A w \in WildCells :
            LET T == openTable(closeTable(Tbl), w)
            IN  /\ getNumTuples(T) = getNumTuples(Tbl)
                /\ \A id \in live :
                     LET before == getRecord(Tbl, recordSize, id, w)
                         after == getRecord(T, recordSize, id, w)
                     IN  after.rc = before.rc /\ after.data = before.data

\* The RIDs a scan has returned so far.
Seen == {scan.seen[i] : i \in 1 .. Len(scan.seen)}

\* C4: a scan with a NULL condition over a table not modified since the
\* scan started returns only RIDs of live records, none twice, and has
\* returned the RID of every live record when it answers
\* RC_RM_NO_MORE_TUPLES.
C4_NullScanComplete ==
    (isOpen /\ scan.active /\ scan.clean /\ scan.condition = "NULL") =>
        /\ Seen \subseteq live
        /\ Cardinality(Seen) = Len(scan.seen)
        /\ scan.done => Len(scan.seen) = Cardinality(live)

\* The live records whose stored bytes meet the condition.
Matching(condition) ==
    {id \in live : Stored(Tbl, id) # << >> /\ evalExpr(Stored(Tbl, id), condition)}

\* C5: a scan with a condition over a table not modified since the scan
\* started returns only live records that meet the condition, none twice,
\* each with the bytes getRecord returns for its RID, and has returned every
\* such record when it answers RC_RM_NO_MORE_TUPLES.  Stated for the states
\* in which no access has left a page frame.
C5_PredicateScanExact ==
    (isOpen /\ ~wild /\ scan.active /\ scan.clean /\ scan.condition # "NULL") =>
        /\ Seen \subseteq Matching(scan.condition)
        /\ Cardinality(Seen) = Len(scan.seen)
        /\ scan.done => Seen = Matching(scan.condition)
        /\ \A w \in WildCells :
             LET r == next(Tbl, recordSize, scan, w)
             IN  (r.rc = "RC_OK" /\ ~r.T.wild) =>
                     r.data = getRecord(r.T, recordSize, r.id, w).data

\* The lowest member of a non-empty set of integers.
Lowest(S) == CHOOSE i \in S : \A j \in S : i <= j

\* The bytes of data page p as a call that pins it now sees them.
PageBytes(p) ==
    LET b == p + numPageDP + 1
    IN  pinPage(Tbl, b).pool[b].data

\* The RID first fit gives an insert that appends no directory page: the
\* lowest-index data page whose entry has hasFreeSlot, on it the lowest-index
\* slot flagged isFree, or else the slot after the page's last.  NoRID when
\* no entry has hasFreeSlot.
FirstFitRID ==
    LET free == {i \in 0 .. NumDataPages(Tbl) - 1 : pageDirectory[i + 1].hasFreeSlot}
        p == Lowest(free)
        tombstoned == {s \in 0 .. pageDirectory[p + 1].recordCount - 1 :
                          SlotIsFree(PageBytes(p), s, 0)}
    IN  IF free = {} \/ numPages > maxEntriesPerPage * numPageDP THEN NoRID
        ELSE IF tombstoned # {} THEN RID(p, Lowest(tombstoned))
        ELSE RID(p, pageDirectory[p + 1].recordCount)

C9_FirstFit ==
    (isOpen /\ FirstFitRID # NoRID) =>
        \A data \in NextInput, w \in WildCells :
            insertRecord(Tbl, recordSize, data, w).id = FirstFitRID

\* The state after three inserts into an empty table and deleteRecord((0,1)).
C9_ThreeInsertedMiddleDeleted ==
    /\ isOpen
    /\ nIns = 3 /\ nDel = 1 /\ nUpd = 0 /\ nOpen = 0
    /\ dead = {RID(0, 1)}

C9_ReusesMiddle ==
    \A data \in NextInput, w \in WildCells :
        LET r == insertRecord(Tbl, recordSize, data, w)
        IN  /\ r.id = RID(0, 1)
            /\ getRecord(r.T, recordSize, RID(0, 1), w).rc = "RC_OK"
            /\ getRecord(r.T, recordSize, RID(0, 1), w).data = data

RecordsPerPage == PAGE_SIZE \div (recordSize + SizeofSlotDirectoryEntry)

\* C10: when no directory entry has hasFreeSlot, insertRecord adds exactly
\* one data page and assigns RID (d, 0), d the number of data pages before
\* the call; with inserts only, the table has one data page up to and
\* including insert number floor(PAGE_SIZE / (recordSize +
\* sizeof(SlotDirectoryEntry))) and more than one after the next.
C10_NewPageWhenFull ==
    isOpen =>
        /\ (\A i \in 0 .. NumDataPages(Tbl) - 1 : ~pageDirectory[i + 1].hasFreeSlot)
              => \A data \in NextInput, w \in WildCells :
                    LET r == insertRecord(Tbl, recordSize, data, w)
                    IN  /\ r.rc = "RC_OK"
                        /\ NumDataPages(r.T) = NumDataPages(Tbl) + 1
                        /\ Len(r.T.pageDirectory) = Len(pageDirectory) + 1
                        /\ r.id = RID(NumDataPages(Tbl), 0)
        /\ (nDel = 0 /\ nUpd = 0 /\ nOpen = 0)
              => (NumDataPages(Tbl) = 1 <=> nIns <= RecordsPerPage)

\* The insert after page 0 took its last record opened page 1.
C10_Witness ==
    /\ isOpen
    /\ nDel = 0 /\ nUpd = 0 /\ nOpen = 0
    /\ nIns = RecordsPerPage + 1
    /\ NumDataPages(Tbl) = 2
    /\ RID(1, 0) \in live
    /\ pageDirectory[2].recordCount = 1

\* C11: closeTable on a handle that closeTable was called on returns RC_OK
\* and neither reads nor releases anything the first call released.
C11_CloseTableIdempotent ==
    ~isOpen =>
        \A u \in Outcomes :
            LET r == closeTableHandle(rel, u)
            IN  r.rc = "RC_OK" /\ r.again = {}

\* C12: closeScan on a scan that closeScan has closed, and closeScan right
\* after the closeScan of a started scan, returns RC_OK and frees nothing;
\* however often closeScan is called, the scan info is freed once.
C12_CloseScanIdempotent ==
    /\ scan.frees <= 1
    /\ (~scan.active /\ scan.closes >= 1) =>
          LET r == closeScan(scan)
          IN  r.rc = "RC_OK" /\ ~r.freed /\ ~r.sc.active /\ r.sc.frees = 1
    /\ scan.active =>
          LET first == closeScan(scan)
              second == closeScan(first.sc)
          IN  /\ first.rc = "RC_OK" /\ first.freed
              /\ second.rc = "RC_OK" /\ ~second.freed
              /\ second.sc.frees = 1

\* closeScan has been called MaxClose times since the scan was started, and
\* the scan info was freed once.
C12_Witness ==
    /\ ~scan.active
    /\ scan.closes = MaxClose
    /\ scan.frees = 1

\* The RIDs out of range: the page is negative or not below the number of
\* data pages, or the slot is negative.
OutOfRangeRIDs ==
    {id \in {RID(p, s) : p \in -1 .. numPages + 1, s \in -1 .. MaxSlot} :
        id.page < 0 \/ id.page >= NumDataPages(Tbl) \/ id.slot < 0}

\* The call that returned r made no call to a collaborator and left the
\* table, the file and the pool as they were.
Untouched(r) ==
    /\ r.T.log = << >>
    /\ r.T.numPages = numPages /\ r.T.numPageDP = numPageDP
    /\ r.T.pageDirectory = pageDirectory
    /\ r.T.disk = disk /\ r.T.pool = pool

\* C13: getRecord, deleteRecord and updateRecord of a RID out of range
\* return RC_RM_INVALID_RID, pin no page and change nothing.
C13_OutOfRangeRejected ==
    isOpen =>
        \A id \in OutOfRangeRIDs, data \in NextInput, w \in WildCells :
            LET g == getRecord(Tbl, recordSize, id, w)
                d == deleteRecord(Tbl, recordSize, id, w)
                u == updateRecord(Tbl, recordSize, id, data, w)
            IN  /\ g.rc = "RC_RM_INVALID_RID" /\ Untouched(g)
                /\ d.rc = "RC_RM_INVALID_RID" /\ Untouched(d)
                /\ u.rc = "RC_RM_INVALID_RID" /\ Untouched(u)

\* The RIDs whose slot entry lies in the frame of a data page and is
\* flagged isFree.
TombstonedRIDs ==
    {id \in AllRIDs :
        /\ id.page < NumDataPages(Tbl)
        /\ SlotIsFree(PageBytes(id.page), id.slot, 0)}

\* T as the next call finds it: nothing called yet, no call failed.
Fresh(T) == [T EXCEPT !.log = << >>, !.failAt = 0, !.rc = "RC_OK"]

\* The bytes of data page p as a call that pins it in T sees them.
PageBytesIn(T, p) ==
    LET b == p + T.numPageDP + 1
    IN  pinPage(Fresh(T), b).pool[b].data

\* The call that returned r left the directory, the file and the bytes of
\* every data page as they were.
Unchanged(r) ==
    /\ r.T.numPages = numPages /\ r.T.numPageDP = numPageDP
    /\ r.T.pageDirectory = pageDirectory
    /\ r.T.disk = disk
    /\ \A p \in 0 .. NumDataPages(Tbl) - 1 : PageBytesIn(r.T, p) = PageBytes(p)

\* C14: deleteRecord, getRecord and updateRecord of a RID whose slot is
\* flagged free return RC_RM_RECORD_NOT_FOUND and leave the page bytes and
\* the directory as they were; a deleteRecord that returned RC_OK credits
\* recordSize to the entry's freeSpace, and a second deleteRecord of the same
\* RID returns RC_RM_RECORD_NOT_FOUND and leaves the entry as the first left it.
C14_TombstonedNotFound ==
    isOpen =>
        /\ \A id \in TombstonedRIDs, data \in NextInput, w \in WildCells :
              LET g == getRecord(Tbl, recordSize, id, w)
                  d == deleteRecord(Tbl, recordSize, id, w)
                  u == updateRecord(Tbl, recordSize, id, data, w)
              IN  /\ g.rc = "RC_RM_RECORD_NOT_FOUND" /\ Unchanged(g)
                  /\ d.rc = "RC_RM_RECORD_NOT_FOUND" /\ Unchanged(d)
                  /\ u.rc = "RC_RM_RECORD_NOT_FOUND" /\ Unchanged(u)
        /\ \A id \in live, w \in WildCells :
              LET first == deleteRecord(Tbl, recordSize, id, w)
                  second == deleteRecord(first.T, recordSize, id, w)
              IN  (first.rc = "RC_OK" /\ ~first.T.wild) =>
                      /\ first.T.pageDirectory[id.page + 1].freeSpace
                            = pageDirectory[id.page + 1].freeSpace + recordSize
                      /\ second.rc = "RC_RM_RECORD_NOT_FOUND"
                      /\ second.T.pageDirectory = first.T.pageDirectory

\* Two records have been deleted; the slot of one of them is flagged free
\* and a further deleteRecord of it is answered RC_RM_RECORD_NOT_FOUND.
C14_Witness ==
    /\ isOpen
    /\ nDel = 2
    /\ \E id \in dead \cap TombstonedRIDs :
          deleteRecord(Tbl, recordSize, id, 0).rc = "RC_RM_RECORD_NOT_FOUND"

\* The pins held after the first n entries of a log: the pinPage calls that
\* succeeded less the unpinPage calls.  (An unpinPage that fails is counted
\* as a release: the pool reports that it holds no such pin.)
PinsHeld(log, n) ==
    Cardinality({i \in 1 .. n : log[i].op = "pinPage" /\ log[i].ok})
    - Cardinality({i \in 1 .. n : log[i].op = "unpinPage"})

OnePinAtMost(r) ==
    /\ \A n \in 0 .. Len(r.T.log) : PinsHeld(r.T.log, n) \in {0, 1}
    /\ PinsHeld(r.T.log, Len(r.T.log)) = 0

\* C15: whichever call fails, if any, insertRecord, getRecord, deleteRecord,
\* updateRecord and next hold at most one pin at any moment and none when
\* they return.
C15_OnePinReleased ==
    isOpen =>
        \A f \in 0 .. MaxCalls, w \in WildCells :
            /\ \A data \in NextInput :
                  /\ OnePinAtMost(insertRecord(Faulty(Tbl, f), recordSize, data, w))
                  /\ \A id \in InputRIDs :
                        OnePinAtMost(updateRecord(Faulty(Tbl, f), recordSize, id,
                                                  data, w))
            /\ \A id \in InputRIDs :
                  /\ OnePinAtMost(getRecord(Faulty(Tbl, f), recordSize, id, w))
                  /\ OnePinAtMost(deleteRecord(Faulty(Tbl, f), recordSize, id, w))
            /\ \A condition \in Conditions, p \in 0 .. NumDataPages(Tbl) - 1,
                  s \in 0 .. MaxSlot :
                  OnePinAtMost(scanFrom(Faulty(Tbl, f), recordSize, condition,
                                        p, s, w))

\* A call has failed in an earlier operation, and from here an updateRecord
\* of a live record deletes and reinserts it, pinning two pages in turn.
C15_Witness ==
    /\ isOpen
    /\ nFault = 1
    /\ \E id \in live, data \in NextInput :
          LET u == updateRecord(Tbl, recordSize, id, data, 0)
          IN  /\ u.rc = "RC_OK"
              /\ Cardinality({i \in 1 .. Len(u.T.log) :
                                 u.T.log[i].op = "pinPage"}) = 3
              /\ OnePinAtMost(u)

\* C16: an insertRecord that returns a status other than RC_OK leaves
\* numPages, numPageDP, every directory entry and getNumTuples as they were.
C16_FailedInsertRestores ==
    isOpen =>
        \A f \in 1 .. MaxCalls, data \in NextInput, w \in WildCells :
            LET r == insertRecord(Faulty(Tbl, f), recordSize, data, w)
            IN  r.rc # "RC_OK" =>
                    /\ r.T.numPages = numPages
                    /\ r.T.numPageDP = numPageDP
                    /\ r.T.pageDirectory = pageDirectory
                    /\ getNumTuples(r.T) = getNumTuples(Tbl)

\* The calls of a log are in the order of a record write: one pinPage, the
\* stores into that page, one markDirty and one unpinPage of it, and after
\* the unpinPage a writeBlock of the directory's block; no block is written
\* while the page is pinned.
Positions(log, op) == {i \in 1 .. Len(log) : log[i].op = op}

WriteOrder(T) ==
    \E p \in Positions(T.log, "pinPage"), m \in Positions(T.log, "markDirty"),
       u \in Positions(T.log, "unpinPage") :
        /\ Positions(T.log, "pinPage") = {p}
        /\ Positions(T.log, "markDirty") = {m}
        /\ Positions(T.log, "unpinPage") = {u}
        /\ p < m /\ m < u
        /\ T.log[m].page = T.log[p].page
        /\ T.log[u].page = T.log[p].page
        /\ Positions(T.log, "store") # {}
        /\ \A i \in Positions(T.log, "store") :
              p < i /\ i < m /\ T.log[i].page = T.log[p].page
        /\ \E i \in Positions(T.log, "writeBlock") :
              i > u /\ T.log[i].page = DirectoryBlock(T)
        /\ \A i \in Positions(T.log, "writeBlock") : i < p \/ i > u

\* C18: in an insertRecord or deleteRecord that returns RC_OK the page is
\* written, then marked dirty, then unpinned, and the directory is flushed
\* after the unpin.
C18_WriteDirtyUnpinFlush ==
    isOpen =>
        \A w \in WildCells :
            /\ \A data \in NextInput :
                  LET r == insertRecord(Tbl, recordSize, data, w)
                  IN  r.rc = "RC_OK" => WriteOrder(r.T)
            /\ \A id \in InputRIDs :
                  LET r == deleteRecord(Tbl, recordSize, id, w)
                  IN  r.rc = "RC_OK" => WriteOrder(r.T)

\* A record has been deleted, a delete of a live record succeeds, and an
\* insert that first appends a data page succeeds.
C18_Witness ==
    /\ isOpen
    /\ nDel > 0
    /\ \E id \in live : deleteRecord(Tbl, recordSize, id, 0).rc = "RC_OK"
    /\ \E data \in NextInput :
          LET r == insertRecord(Tbl, recordSize, data, 0)
          IN  /\ r.rc = "RC_OK"
              /\ Positions(r.T.log, "appendEmptyBlock") # {}
              /\ WriteOrder(r.T)

\* RID a comes before RID b in (page, slot) order.
Before(a, b) == a.page < b.page \/ (a.page = b.page /\ a.slot < b.slot)

\* C17: the RIDs one scan has returned are strictly increasing in (page, slot)
\* order, and the RID its next call returns with RC_OK comes after the last
\* one returned and not before the cursor, whatever inserts and deletes came
\* between the calls.
C17_ScanRIDsIncrease ==
    /\ \A i \in 1 .. Len(scan.seen) - 1 : Before(scan.seen[i], scan.seen[i + 1])
    /\ (isOpen /\ scan.active) =>
          \A w \in WildCells :
              LET r == next(Tbl, recordSize, scan, w)
              IN  r.rc = "RC_OK" =>
                      /\ scan.last # NoRID => Before(scan.last, r.id)
                      /\ ~Before(r.id, RID(scan.currentPage, scan.currentSlot))

\* A scan has returned a record, and a record inserted since then lives in a
\* slot the cursor has passed, which the scan has not returned.
C17_Witness ==
    /\ isOpen
    /\ scan.active
    /\ ~scan.clean
    /\ scan.last # NoRID
    /\ \E id \in live :
          /\ Before(id, scan.last)
          /\ \A i \in 1 .. Len(scan.seen) : scan.seen[i] # id

\* The cells of a record that attribute k of a schema occupies: those after
\* the cells of the attributes before it.
RECURSIVE CellsBefore(_, _)
CellsBefore(sch, k) ==
    IF k = 0 THEN 0
    ELSE CellsBefore(sch, k - 1)
         + (IF sch[k].dataType = "DT_STRING" THEN sch[k].typeLength ELSE 1)

CellsOf(sch, k) == CellsBefore(sch, k) + 1 .. CellsBefore(sch, k + 1)

\* v, or its first n characters when it is longer.
Truncated(v, n) == IF Len(v) <= n THEN v ELSE SubSeq(v, 1, n)

\* C19: getAttr after setAttr(record, k, v) returns v for an INT, FLOAT or
\* BOOL attribute and v truncated to typeLength[k] characters for a STRING
\* attribute; the setAttr changes no cell of another attribute, so getAttr of
\* every other attribute returns what it returned before.
C19_SetGetRoundTrip ==
    \A k \in 0 .. Len(schema) - 1, value \in AttrValues :
        value.dt = schema[k + 1].dataType =>
            LET s == setAttr(recordData, schema, k, value)
                g == getAttr(s.data, schema, k)
            IN  /\ s.rc = "RC_OK"
                /\ g.rc = "RC_OK"
                /\ g.value = IF value.dt = "DT_STRING"
                             THEN Val("DT_STRING",
                                      Truncated(value.v, schema[k + 1].typeLength))
                             ELSE value
                /\ Len(s.data) = Len(recordData)
                /\ \A i \in 1 .. Len(recordData) :
                      i \notin CellsOf(schema, k) => s.data[i] = recordData[i]
                /\ \A j \in 0 .. Len(schema) - 1 :
                      j # k => getAttr(s.data, schema, j)
                               = getAttr(recordData, schema, j)

\* The last setAttr stored a string longer than its attribute, after the
\* attributes on both sides of it were set, and getAttr returns its first
\* typeLength characters.
C19_Witness ==
    /\ lastSet.attrNum = 1
    /\ lastSet.value.dt = "DT_STRING"
    /\ Len(lastSet.value.v) > schema[2].typeLength
    /\ recordData[1] # 0
    /\ recordData[Len(recordData)] # 0
    /\ getAttr(recordData, schema, 1).value
          = Val("DT_STRING", SubSeq(lastSet.value.v, 1, schema[2].typeLength))

\* The marker is at the offset the slot entry of id holds in r.T's page, and
\* the entry is flagged free.
MarkedNow(r, id, w) ==
    LET page == PageBytesIn(r.T, id.page)
    IN  /\ SlotIsFree(page, id.slot, w)
        /\ Cell(page, SlotOffset(page, id.slot, w), w) = DELETED_RECORD_MARKER

\* C20: after a deleteRecord of a live record that returned RC_OK, the slot
\* is flagged free and the cell at the offset its entry holds, the first of
\* the record's payload, holds DELETED_RECORD_MARKER.
C20_MarkerAtStoredOffset ==
    isOpen =>
        \A id \in live, w \in WildCells :
            LET r == deleteRecord(Tbl, recordSize, id, w)
            IN  (r.rc = "RC_OK" /\ ~r.T.wild) => MarkedNow(r, id, w)

\* The size of a schema's encoded form: the attribute count, the names with
\* their terminators, a data type and a length for each attribute, the key
\* count and the key attributes.
RECURSIVE NameBytes(_)
NameBytes(names) ==
    IF names = << >> THEN 0 ELSE Len(Head(names)) + 1 + NameBytes(Tail(names))

EncodedSize(s) ==
    SizeofInt + NameBytes(s.attrNames) + s.numAttr * (SizeofDataType + SizeofInt)
    + SizeofInt + s.keySize * SizeofInt

\* C21: createTable of a schema whose encoded form fits in a page returns
\* RC_OK and openTable reads back the same numAttr, attribute names, data
\* types, type lengths, keySize and key attributes; createTable of a schema
\* whose encoded form exceeds PAGE_SIZE returns RC_PAGE_FULL.
C21_SchemaRoundTrip ==
    catalog.rc # "none" =>
        IF EncodedSize(catalog.given) <= PAGE_SIZE
        THEN /\ catalog.rc = "RC_OK"
             /\ catalog.read => catalog.opened = catalog.given
        ELSE catalog.rc = "RC_PAGE_FULL"

\* openTable has read back a schema of two named attributes, one of them a
\* string, and a key, whose encoded form fills the page.
C21_Witness ==
    /\ catalog.read
    /\ catalog.opened = catalog.given
    /\ catalog.given.numAttr = 2
    /\ catalog.given.keySize = 1
    /\ \A i \in 1 .. 2 : catalog.given.attrNames[i] # << >>
    /\ \E i \in 1 .. 2 : catalog.given.dataTypes[i] = "DT_STRING"
    /\ EncodedSize(catalog.given) = PAGE_SIZE

\* C22: an insertRecord that is assigned the RID of a deleted record changes
\* the bytes getRecord returns for no other live RID.
C22_ReuseKeepsOthers ==
    isOpen =>
        \A data \in NextInput, w \in WildCells :
            LET r == insertRecord(Tbl, recordSize, data, w)
            IN  (r.rc = "RC_OK" /\ r.id \in dead) =>
                    \A id \in live \ {r.id} : Stored(r.T, id) = Stored(Tbl, id)

\* The block of the last writeBlock before the pinPage of a log, and the block
\* of its pinPage.
PinnedBlock(log) == log[Lowest(Positions(log, "pinPage"))].page

ZeroedBlock(log) ==
    LET pin == Lowest(Positions(log, "pinPage"))
        writes == {i \in Positions(log, "writeBlock") : i < pin}
    IN  log[CHOOSE i \in writes : \A j \in writes : j <= i].page

\* C23: when insertRecord appends a data page, the block it zeroes for the
\* new page is the block at which it then pins the new page, and is the block
\* of no data page the table had before.
C23_NewPageZeroesOwnBlock ==
    isOpen =>
        \A data \in NextInput, w \in WildCells :
            LET r == insertRecord(Tbl, recordSize, data, w)
            IN  (r.rc = "RC_OK" /\ Len(r.T.pageDirectory) > Len(pageDirectory)) =>
                    /\ ZeroedBlock(r.T.log) = PinnedBlock(r.T.log)
                    /\ \A p \in 0 .. NumDataPages(Tbl) - 1 :
                          ZeroedBlock(r.T.log) # p + numPageDP + 1

\* C24: an insertRecord that appends a directory page leaves every live
\* record in the block getRecord pinned for it before, and getRecord returns
\* for it the bytes it returned before.
C24_DataPageKeepsBlock ==
    isOpen =>
        \A data \in NextInput, w \in WildCells :
            LET r == insertRecord(Tbl, recordSize, data, w)
            IN  (r.rc = "RC_OK" /\ r.T.numPageDP > numPageDP) =>
                    \A id \in live \ {r.id} :
                        LET before == getRecord(Tbl, recordSize, id, w)
                            after == getRecord(Fresh(r.T), recordSize, id, w)
                        IN  /\ PinnedBlock(after.T.log) = PinnedBlock(before.T.log)
                            /\ after.rc = before.rc
                            /\ after.data = before.data

\* The block of the last writeBlock of a log: the directory flush of an
\* insertRecord or deleteRecord that returned RC_OK.
FlushedBlock(log) ==
    LET writes == Positions(log, "writeBlock")
    IN  log[CHOOSE i \in writes : \A j \in writes : j <= i].page

\* The directory flush of the call that returned r wrote to the block of no
\* data page, and to block 1 if there is one directory page.
FlushedToDirectory(r) ==
    /\ \A p \in 0 .. NumDataPages(r.T) - 1 :
          FlushedBlock(r.T.log) # r.T.pageDirectory[p + 1].pageID + r.T.numPageDP + 1
    /\ r.T.numPageDP = 1 => FlushedBlock(r.T.log) = 1

\* C25: the directory flush of every insertRecord and deleteRecord that
\* returns RC_OK writes to a block that stores no data page, and to block 1
\* as long as numPageDP = 1.
C25_FlushToDirectoryBlock ==
    isOpen =>
        \A w \in WildCells :
            /\ \A data \in NextInput :
                  LET r == insertRecord(Tbl, recordSize, data, w)
                  IN  r.rc = "RC_OK" => FlushedToDirectory(r)
            /\ \A id \in live :
                  LET r == deleteRecord(Tbl, recordSize, id, w)
                  IN  r.rc = "RC_OK" => FlushedToDirectory(r)

\* C26: the table never has more data pages than maxEntriesPerPage for each
\* of its directory pages, so the entries a flush or a load copies fit in a
\* directory page.
C26_DirectoryFitsPage ==
    isOpen => NumDataPages(Tbl) <= maxEntriesPerPage * numPageDP

\* C27: for every data page index p, the block next pins when its cursor is
\* on page p is the block getRecord pins for a RID of page p,
\* p + numPageDP + 1.
C27_ScanPinsRecordBlock ==
    isOpen =>
        \A p \in 0 .. NumDataPages(Tbl) - 1, condition \in Conditions,
           w \in WildCells :
            LET n == scanFrom(Tbl, recordSize, condition, p, 0, w)
                g == getRecord(Tbl, recordSize, RID(p, 0), w)
            IN  /\ PinnedBlock(n.T.log) = p + numPageDP + 1
                /\ PinnedBlock(g.T.log) = p + numPageDP + 1

\* C28: getRecord, deleteRecord and updateRecord of a RID that is not live
\* do not return RC_OK, and for a slot at or beyond the page's recordCount
\* they leave the page bytes and the directory as they were.
C28_OnlyLiveRIDs ==
    isOpen =>
        \A id \in InputRIDs \ live, data \in NextInput, w \in WildCells :
            LET g == getRecord(Tbl, recordSize, id, w)
                d == deleteRecord(Tbl, recordSize, id, w)
                u == updateRecord(Tbl, recordSize, id, data, w)
            IN  /\ g.rc # "RC_OK" /\ d.rc # "RC_OK" /\ u.rc # "RC_OK"
                /\ (/\ id.page < NumDataPages(Tbl)
                    /\ id.slot >= pageDirectory[id.page + 1].recordCount)
                      => Unchanged(g) /\ Unchanged(d) /\ Unchanged(u)

\* Slot s of data page p is in use and its record lies between the end of
\* the page's slot directory and the end of the page.
RecordInRegion(p, s) ==
    LET offset == SlotOffset(PageBytes(p), s, 0)
    IN  /\ pageDirectory[p + 1].recordCount * SizeofSlotDirectoryEntry <= offset
        /\ offset + recordSize <= PAGE_SIZE

\* C29: on every data page, the record of every slot in use lies inside the
\* page and after the page's slot directory.
C29_SlotsAndRecordsApart ==
    isOpen =>
        \A p \in 0 .. NumDataPages(Tbl) - 1 :
            \A s \in 0 .. pageDirectory[p + 1].recordCount - 1 :
                ~SlotIsFree(PageBytes(p), s, 0) => RecordInRegion(p, s)

\* C30: the freeSpace of every directory entry is what remains of the page
\* after the slot entries counted by recordCount and the live records.
C30_FreeSpaceIsRemaining ==
    isOpen =>
        \A p \in 0 .. NumDataPages(Tbl) - 1 :
            pageDirectory[p + 1].freeSpace
                = PAGE_SIZE
                  - pageDirectory[p + 1].recordCount * SizeofSlotDirectoryEntry
                  - Cardinality({id \in live : id.page = p}) * recordSize

\* C31: for every directory entry of a table whose record and slot entry fit a
\* page, hasFreeSlot is true exactly when freeSpace is at least recordSize plus
\* one slot directory entry, and freeSpace is never negative.
C31_HasFreeSlotTracksFreeSpace ==
    (isOpen /\ recordSize + SizeofSlotDirectoryEntry <= PAGE_SIZE) =>
        \A p \in 0 .. NumDataPages(Tbl) - 1 :
            /\ pageDirectory[p + 1].freeSpace >= 0
            /\ pageDirectory[p + 1].hasFreeSlot
                   <=> (pageDirectory[p + 1].freeSpace
                            >= recordSize + SizeofSlotDirectoryEntry)

\* A full page beside a page that a delete has given room again.
C31_Witness ==
    /\ isOpen
    /\ nDel > 0
    /\ \E p \in 0 .. NumDataPages(Tbl) - 1 :
           /\ ~pageDirectory[p + 1].hasFreeSlot
           /\ pageDirectory[p + 1].freeSpace < recordSize + SizeofSlotDirectoryEntry
    /\ \E p \in 0 .. NumDataPages(Tbl) - 1 :
           /\ pageDirectory[p + 1].hasFreeSlot
           /\ pageDirectory[p + 1].freeSpace < PAGE_SIZE
           /\ \E id \in dead : id.page = p

\* The slots of T in use whose record begins with the tombstone marker.
MarkedInUse(T) ==
    {id \in {RID(p, s) : p \in 0 .. NumDataPages(T) - 1, s \in 0 .. SlotsPerPage - 1} :
        /\ id.slot < T.pageDirectory[id.page + 1].recordCount
        /\ ~SlotIsFree(PageBytesIn(T, id.page), id.slot, 0)
        /\ Cell(PageBytesIn(T, id.page),
                SlotOffset(PageBytesIn(T, id.page), id.slot, 0), 0)
               = DELETED_RECORD_MARKER}

\* The records a caller may insert besides its next one: one that begins
\* with the byte DELETED_RECORD_MARKER.
MarkedRecords(rs) == { [i \in 1 .. rs |-> IF i = 1 THEN DELETED_RECORD_MARKER ELSE 0] }

\* C32: in every state of an open table, and in the state any successful
\* insertRecord leads to, no slot in use on any data page has a record whose
\* first byte is the tombstone marker 0xFD.
C32_InUseNotMarked ==
    isOpen =>
        /\ MarkedInUse(Tbl) = {}
        /\ \A data \in NextInput \cup MarkedRecords(recordSize), w \in WildCells :
               LET r == insertRecord(Tbl, recordSize, data, w)
               IN  r.rc = "RC_OK" => MarkedInUse(r.T) = {}

\* C33: in every state of an open table, an insertRecord that returns RC_OK
\* assigns a RID that no live record has: the RID is new or was deleted.
C33_AssignedRIDNotLive ==
    isOpen =>
        \A data \in NextInput, w \in WildCells :
            LET r == insertRecord(Tbl, recordSize, data, w)
            IN  r.rc = "RC_OK" => r.id \notin live

\* recordCount of data page p in T, 0 while T has no entry for p.
RecordCountIn(T, p) ==
    IF p < NumDataPages(T) THEN T.pageDirectory[p + 1].recordCount ELSE 0

\* The slot indexes given out so far on data page p: those of the live
\* records and those of the deleted ones.
Allocated(p) == {id \in live \cup dead : id.page = p}

\* C34: in every state of an open table the recordCount of every data page is
\* the number of slot indexes given out on it, live and tombstoned together;
\* an insertRecord that returns RC_OK adds one to the recordCount of its page
\* when it appends a slot and leaves it when it reuses one, and leaves every
\* other page's; deleteRecord leaves every recordCount as it was.
C34_RecordCountIsSlotsAllocated ==
    isOpen =>
        /\ \A p \in 0 .. NumDataPages(Tbl) - 1 :
               pageDirectory[p + 1].recordCount = Cardinality(Allocated(p))
        /\ \A data \in NextInput, w \in WildCells :
               LET r == insertRecord(Tbl, recordSize, data, w)
                   appended == r.id.slot = RecordCountIn(Tbl, r.id.page)
               IN  r.rc = "RC_OK" =>
                       \A p \in 0 .. NumDataPages(r.T) - 1 :
                           RecordCountIn(r.T, p)
                               = IF p = r.id.page /\ appended
                                 THEN RecordCountIn(Tbl, p) + 1
                                 ELSE RecordCountIn(Tbl, p)
        /\ \A id \in live \cup dead, w \in WildCells :
               LET r == deleteRecord(Tbl, recordSize, id, w)
               IN  \A p \in 0 .. NumDataPages(Tbl) - 1 :
                       RecordCountIn(r.T, p) = RecordCountIn(Tbl, p)

\* A page with two slots that three inserts and a delete have used: one
\* insert reused the slot the delete freed.
C34_Witness ==
    /\ isOpen
    /\ nDel > 0
    /\ NumDataPages(Tbl) = 1
    /\ dead = {}
    /\ pageDirectory[1].recordCount >= 2
    /\ nIns > pageDirectory[1].recordCount
    /\ Cardinality(live) = pageDirectory[1].recordCount

====
